---- MODULE Spec2Model ----
(***************************************************************************)
(* A model of bookmark_cleaner.py: the path canonicalizer                  *)
(* (get_canonical_path_segments), the collector                            *)
(* (collect_bookmarks_recursively), the tree builder                       *)
(* (build_chrome_json_structure) and the part of main() that runs them     *)
(* over a loaded document and commits the result.                          *)
(*                                                                         *)
(* Python strings are TLA+ strings; Chars gives the code points of each    *)
(* string of the model, and str.lower(), str.startswith() and the string   *)
(* order used by sorted() are computed on those code points.  A Python     *)
(* dict is a sequence of <<key, value>> pairs in insertion order.  A JSON  *)
(* node is a record with a field `keys` that holds the keys present in it. *)
(***************************************************************************)
EXTENDS Integers, Sequences, FiniteSets, TLC

VARIABLES
    pc,                        \* position of the run
    bookmark_data,             \* main(): the loaded document, <<root key, node>> pairs of "roots"
    file,                      \* the Bookmarks file on disk (what load read, what save writes)
    collected_bookmarks,       \* main(): the merge structure
    seen_urls,                 \* main(): the set of URLs collected so far
    uuid_calls,                \* number of uuid.uuid4() values drawn so far
    original_full_path_parts,  \* canonicalizer runs: the input path
    canonical_path,            \* canonicalizer runs: get_canonical_path_segments(input)
    recanonical_path,          \* canonicalizer runs: the canonicalizer applied to its own result
    collected_node_dict,       \* builder runs: a merge-structure node
    reinserted_node_dict,      \* builder runs: the same content inserted in another order
    children_list,             \* builder runs: build_chrome_json_structure(collected_node_dict)
    rebuilt_children_list      \* builder runs: build_chrome_json_structure(reinserted_node_dict)

mainVars == <<bookmark_data, file, collected_bookmarks, seen_urls, uuid_calls>>
canonVars == <<original_full_path_parts, canonical_path, recanonical_path>>
buildVars == <<collected_node_dict, reinserted_node_dict, children_list, rebuilt_children_list>>
vars == <<pc, mainVars, canonVars, buildVars>>

----------------------------------------------------------------------------
(* Strings *)

\* The code points of the strings the model uses.
Chars(s) ==
    CASE s = "" -> <<>>
      [] s = "Bookmarks Bar" -> <<66, 111, 111, 107, 109, 97, 114, 107, 115, 32, 66, 97, 114>>
      [] s = "Other Bookmarks" -> <<79, 116, 104, 101, 114, 32, 66, 111, 111, 107, 109, 97, 114, 107, 115>>
      [] s = "Mobile Bookmarks" -> <<77, 111, 98, 105, 108, 101, 32, 66, 111, 111, 107, 109, 97, 114, 107, 115>>
      [] s = "Managed Bookmarks" -> <<77, 97, 110, 97, 103, 101, 100, 32, 66, 111, 111, 107, 109, 97, 114, 107, 115>>
      [] s = "Reading list" -> <<82, 101, 97, 100, 105, 110, 103, 32, 108, 105, 115, 116>>
      [] s = "bookmark_bar" -> <<98, 111, 111, 107, 109, 97, 114, 107, 95, 98, 97, 114>>
      [] s = "synced" -> <<115, 121, 110, 99, 101, 100>>
      [] s = "_bookmarks" -> <<95, 98, 111, 111, 107, 109, 97, 114, 107, 115>>
      [] s = "javascript:" -> <<106, 97, 118, 97, 115, 99, 114, 105, 112, 116, 58>>
      [] s = "javascript:alert(1)" -> <<106, 97, 118, 97, 115, 99, 114, 105, 112, 116, 58, 97, 108, 101, 114, 116, 40, 49, 41>>
      [] s = "No Name" -> <<78, 111, 32, 78, 97, 109, 101>>
      [] s = "Work" -> <<87, 111, 114, 107>>
      [] s = "work" -> <<119, 111, 114, 107>>
      [] s = "apps" -> <<97, 112, 112, 115>>
      [] s = "http://x" -> <<104, 116, 116, 112, 58, 47, 47, 120>>
      [] s = "http://y" -> <<104, 116, 116, 112, 58, 47, 47, 121>>
      [] s = "http://z" -> <<104, 116, 116, 112, 58, 47, 47, 122>>
      [] s = "http://old" -> <<104, 116, 116, 112, 58, 47, 47, 111, 108, 100>>
      [] s = "a" -> <<97>>
      [] s = "A" -> <<65>>
      [] s = "B" -> <<66>>
      [] s = "C" -> <<67>>
      [] s = "0" -> <<48>>
      [] s = "1" -> <<49>>
      [] s = "3" -> <<51>>

\* str.lower() on code points (the ASCII letters).
LowerChars(cs) == [i \in 1..Len(cs) |-> IF cs[i] \in 65..90 THEN cs[i] + 32 ELSE cs[i]]

\* x.lower(), the sort key of lines 198 and 216.
Lower(s) == LowerChars(Chars(s))

\* Python's order on str, on code points: a <= b.
CharsLeq(a, b) ==
    LET diff == {i \in 1..Len(a) : i > Len(b) \/ a[i] # b[i]}
    IN  IF diff = {} THEN TRUE
        ELSE LET i == CHOOSE j \in diff : \A k \in diff : j <= k
             IN  i <= Len(b) /\ a[i] < b[i]

\* url.startswith(prefix)
StartsWith(s, prefix) ==
    LET cs == Chars(s)
        ps == Chars(prefix)
    IN  Len(ps) <= Len(cs) /\ SubSeq(cs, 1, Len(ps)) = ps

----------------------------------------------------------------------------
(* Configuration, lines 8-18 *)

DESTINATION_ROOT_NAME == "bookmark_bar"

CHROME_ROOT_NAMES ==
    {"Bookmarks Bar", "Other Bookmarks", "Mobile Bookmarks", "Managed Bookmarks", "Reading list"}

\* Line 18 sets 100.  The model keeps the documents small and scales the limit
\* down; the collector reads it only in the test of line 126, and every
\* property below is stated relative to it.
MAX_RECURSION_DEPTH == 4

----------------------------------------------------------------------------
(* get_canonical_path_segments, lines 74-120 *)

\* Step 1, lines 86-95: the loop over the parts, having read the first i - 1
\* of them into user_defined_path_parts.
RECURSIVE FilterRootNames(_, _, _)
FilterRootNames(parts, i, user_defined_path_parts) ==
    IF i > Len(parts) THEN user_defined_path_parts
    ELSE IF parts[i] \notin CHROME_ROOT_NAMES
         THEN FilterRootNames(parts, i + 1, Append(user_defined_path_parts, parts[i]))
         ELSE IF user_defined_path_parts = <<>>
              THEN FilterRootNames(parts, i + 1, user_defined_path_parts)
              ELSE FilterRootNames(parts, i + 1, Append(user_defined_path_parts, parts[i]))

\* Line 101 returning no segment at all.
RootOnlyPathEmpty(parts) == <<>>

\* Line 101: the path of a bookmark with no user-defined folder above it.
RootOnlyPath(parts) == <<parts[1]>>

\* Line 108 with the range ending one short: the outermost part is never read.
RECURSIVE DeduplicateOmittingFirst(_, _, _)
DeduplicateOmittingFirst(parts, i, final) ==
    IF i < 2 THEN final
    ELSE IF \A k \in 1..Len(final) : final[k] # parts[i]
         THEN DeduplicateOmittingFirst(parts, i - 1, <<parts[i]>> \o final)
         ELSE final

\* Lines 115-118 changed to skip a repeated name and go on (no break).
RECURSIVE DeduplicateSkipping(_, _, _)
DeduplicateSkipping(parts, i, final) ==
    IF i < 1 THEN final
    ELSE IF \A k \in 1..Len(final) : final[k] # parts[i]
         THEN DeduplicateSkipping(parts, i - 1, <<parts[i]>> \o final)
         ELSE DeduplicateSkipping(parts, i - 1, final)

\* Step 3, lines 104-118: the backwards loop at index i (1-based), with
\* final_canonical_path_segments built so far; seen_names_in_new_path is the
\* set of its elements.
RECURSIVE DeduplicateFromLeaf(_, _, _)
DeduplicateFromLeaf(parts, i, final) ==
    IF i < 1 THEN final
    ELSE IF \A k \in 1..Len(final) : final[k] # parts[i]
         THEN DeduplicateFromLeaf(parts, i - 1, <<parts[i]>> \o final)
         ELSE final

get_canonical_path_segments(original) ==
    LET user_defined_path_parts == FilterRootNames(original, 1, <<>>)
    IN  IF user_defined_path_parts = <<>> /\ original # <<>>
        THEN RootOnlyPath(original)
        ELSE DeduplicateFromLeaf(user_defined_path_parts, Len(user_defined_path_parts), <<>>)

----------------------------------------------------------------------------
(* JSON nodes and Python dicts *)

\* node.get(key, default)
Get(node, key, default) == IF key \in node.keys THEN node[key] ELSE default

\* A url node of the document; `keys` says which of name, url, date_added it has.
UrlNode(keys, name, url, date_added) ==
    [keys |-> {"type"} \cup keys, type |-> "url", name |-> name, url |-> url, guid |-> 0,
     date_added |-> date_added, date_modified |-> "", children |-> <<>>]

\* A folder node of the document (a root container is one too).
FolderNode(keys, name, children) ==
    [keys |-> {"type"} \cup keys, type |-> "folder", name |-> name, url |-> "", guid |-> 0,
     date_added |-> "", date_modified |-> "", children |-> children]

EmptyDict == [kind |-> "dict", items |-> <<>>]

PyList(items) == [kind |-> "list", items |-> items]

\* key in d
DictHas(d, key) == \E i \in 1..Len(d.items) : d.items[i][1] = key

\* d[key]
DictGet(d, key) == d.items[CHOOSE i \in 1..Len(d.items) : d.items[i][1] = key][2]

\* d[key] = value: a new key goes last, an old key keeps its place.
DictSet(d, key, value) ==
    IF DictHas(d, key)
    THEN [d EXCEPT !.items = [i \in 1..Len(d.items) |->
                                 IF d.items[i][1] = key THEN <<key, value>> ELSE d.items[i]]]
    ELSE [d EXCEPT !.items = Append(d.items, <<key, value>>)]

\* sorted(seq, key=...), keys[i] being the key of seq[i]: Python's sort is
\* stable, so an element's place is the number of elements with a smaller key,
\* or an equal key and an earlier place.
SortedBy(seq, keys) ==
    LET n == Len(seq)
        before(j, i) == IF keys[j] = keys[i] THEN j < i ELSE CharsLeq(keys[j], keys[i])
        rank(i) == Cardinality({j \in 1..n : j # i /\ before(j, i)}) + 1
    IN  [p \in 1..n |-> seq[CHOOSE i \in 1..n : rank(i) = p]]

----------------------------------------------------------------------------
(* collect_bookmarks_recursively, lines 122-178 *)

\* Line 126 with the test off by one (>= for >).
DepthExceededEarly(depth) == depth >= MAX_RECURSION_DEPTH

\* Line 126
DepthExceeded(depth) == depth > MAX_RECURSION_DEPTH

\* Line 134: not url or url.startswith("javascript:"); url is None when absent.
IsSkippedUrl(node) ==
    \/ "url" \notin node.keys
    \/ node.url = ""
    \/ StartsWith(node.url, "javascript:")

\* Line 138 never finding the URL.
IsDuplicateNever(url, seen) == FALSE

\* Line 138
IsDuplicate(url, seen) == url \in seen

\* Lines 144-150 for the uuid4 value guid.
BookmarkItem(node, guid) ==
    [keys |-> {"type", "name", "url", "guid", "date_added"}, type |-> "url",
     name |-> Get(node, "name", "No Name"), url |-> node.url, guid |-> guid,
     date_added |-> Get(node, "date_added", "0"), date_modified |-> "", children |-> <<>>]

\* Lines 155-165 from current_level on, at segment i of canonical_path: the
\* level as it is left, and whether the statements ran without raising.
\* A level that is the list of '_bookmarks' has no str keys: line 158 or 164
\* raises TypeError; a '_bookmarks' value that is a dict has no append: line
\* 165 raises AttributeError.
RECURSIVE InsertAtPath(_, _, _, _)
InsertAtPath(current_level, path, i, bookmark_item) ==
    IF current_level.kind # "dict"
    THEN [level |-> current_level, ok |-> FALSE]
    ELSE IF i > Len(path)
    THEN IF ~DictHas(current_level, "_bookmarks")
         THEN [level |-> DictSet(current_level, "_bookmarks", PyList(<<bookmark_item>>)),
               ok |-> TRUE]
         ELSE LET bookmarks == DictGet(current_level, "_bookmarks")
              IN  IF bookmarks.kind = "list"
                  THEN [level |-> DictSet(current_level, "_bookmarks",
                                          PyList(Append(bookmarks.items, bookmark_item))),
                        ok |-> TRUE]
                  ELSE [level |-> current_level, ok |-> FALSE]
    ELSE LET segment == path[i]
             made == IF DictHas(current_level, segment) THEN current_level
                     ELSE DictSet(current_level, segment, EmptyDict)
             below == InsertAtPath(DictGet(made, segment), path, i + 1, bookmark_item)
         IN  [level |-> DictSet(made, segment, below.level), ok |-> below.ok]

\* Lines 172-175 with the folder's name put in front of the path.
NextPathPartsPrepended(node, current_path_parts) ==
    IF "name" \in node.keys /\ node.name # ""
    THEN <<node.name>> \o current_path_parts
    ELSE current_path_parts

\* Lines 169-175: next_path_parts
NextPathParts(node, current_path_parts) ==
    IF "name" \in node.keys /\ node.name # ""
    THEN Append(current_path_parts, node.name)
    ELSE current_path_parts

\* Lines 132-165: a url node.  acc holds collected_bookmarks (cb), seen_urls
\* (seen), the uuid4 values drawn (uuid) and whether no exception was raised.
CollectUrl(node, current_path_parts, acc) ==
    IF IsSkippedUrl(node) THEN acc
    ELSE IF IsDuplicate(node.url, acc.seen) THEN acc
    ELSE LET bookmark_item == BookmarkItem(node, acc.uuid + 1)
             canonical == get_canonical_path_segments(current_path_parts)
             placed == InsertAtPath(acc.cb, canonical, 1, bookmark_item)
         IN  [cb |-> placed.level, seen |-> acc.seen \cup {node.url},
              uuid |-> acc.uuid + 1, ok |-> placed.ok]

\* The call of line 122 on node, and the loop of lines 177-178 from child i on.
\* An exception raised below ends every call above it (acc.ok is FALSE).
RECURSIVE collect_bookmarks_recursively(_, _, _, _)
RECURSIVE CollectChildren(_, _, _, _, _)
collect_bookmarks_recursively(node, current_path_parts, acc, depth) ==
    IF ~acc.ok THEN acc
    ELSE IF DepthExceeded(depth) THEN acc
    ELSE IF Get(node, "type", "") = "url" THEN CollectUrl(node, current_path_parts, acc)
    ELSE IF Get(node, "type", "") = "folder"
    THEN CollectChildren(Get(node, "children", <<>>), 1,
                         NextPathParts(node, current_path_parts), acc, depth)
    ELSE acc

CollectChildren(children, i, next_path_parts, acc, depth) ==
    IF i > Len(children) \/ ~acc.ok THEN acc
    ELSE CollectChildren(children, i + 1, next_path_parts,
            collect_bookmarks_recursively(children[i], next_path_parts, acc, depth + 1),
            depth)

----------------------------------------------------------------------------
(* build_chrome_json_structure, lines 180-218 *)

\* Line 198 sorting on the name as it is.
FolderSortKeyRaw(folder_name) == Chars(folder_name)

\* Line 198: key=lambda x: x.lower()
FolderSortKey(folder_name) == Lower(folder_name)

\* Line 216 sorting on the name as it is.
BookmarkSortKeyRaw(bookmark) == Chars(bookmark.name)

\* Line 216: key=lambda x: x['name'].lower()
BookmarkSortKey(bookmark) == Lower(bookmark.name)

\* Lines 205-212 for the uuid4 value guid.
FolderRecord(folder_name, folder_children, guid) ==
    [keys |-> {"type", "name", "children", "guid", "date_added", "date_modified"},
     type |-> "folder", name |-> folder_name, url |-> "", guid |-> guid,
     date_added |-> "0", date_modified |-> "0", children |-> folder_children]

\* Lines 214-216 putting the bookmarks in front of the folders.
ChildrenBookmarksFirst(folders, direct_bookmarks) ==
    SortedBy(direct_bookmarks,
             [i \in 1..Len(direct_bookmarks) |-> BookmarkSortKey(direct_bookmarks[i])]) \o folders

\* Lines 214-216: children_list after the folders, extended by the sorted bookmarks.
ChildrenExtended(folders, direct_bookmarks) ==
    folders \o SortedBy(direct_bookmarks,
                        [i \in 1..Len(direct_bookmarks) |-> BookmarkSortKey(direct_bookmarks[i])])

\* The call of line 180 on a node, and the loop of lines 201-212 from key i on.
\* The result: children_list (children), the uuid4 values drawn (uuid) and
\* whether no exception was raised.  A '_bookmarks' value that is a non-empty
\* dict is sorted as a list of its keys: x['name'] on a str raises TypeError.
RECURSIVE build_chrome_json_structure(_, _)
RECURSIVE BuildFolders(_, _, _, _)
build_chrome_json_structure(collected, uuid) ==
    LET has == DictHas(collected, "_bookmarks")
        direct_bookmarks == IF has THEN DictGet(collected, "_bookmarks") ELSE PyList(<<>>)
        temp_dict_for_folders ==
            [collected EXCEPT !.items = SelectSeq(collected.items,
                                                  LAMBDA kv : kv[1] # "_bookmarks")]
        names == [i \in 1..Len(temp_dict_for_folders.items) |-> temp_dict_for_folders.items[i][1]]
        folder_keys == SortedBy(names, [i \in 1..Len(names) |-> FolderSortKey(names[i])])
        folders == BuildFolders(temp_dict_for_folders, folder_keys, 1,
                                [children |-> <<>>, uuid |-> uuid, ok |-> TRUE])
    IN  IF ~folders.ok THEN folders
        ELSE IF direct_bookmarks.items = <<>> THEN folders
        ELSE IF direct_bookmarks.kind # "list" THEN [folders EXCEPT !.ok = FALSE]
        ELSE [folders EXCEPT
                !.children = ChildrenExtended(folders.children, direct_bookmarks.items)]

BuildFolders(temp_dict_for_folders, folder_keys, i, built) ==
    IF i > Len(folder_keys) \/ ~built.ok THEN built
    ELSE LET folder_name == folder_keys[i]
             below == build_chrome_json_structure(DictGet(temp_dict_for_folders, folder_name),
                                                  built.uuid)
         IN  BuildFolders(temp_dict_for_folders, folder_keys, i + 1,
                [children |-> IF below.ok
                              THEN Append(built.children,
                                          FolderRecord(folder_name, below.children,
                                                       below.uuid + 1))
                              ELSE built.children,
                 uuid |-> IF below.ok THEN below.uuid + 1 ELSE below.uuid,
                 ok |-> below.ok])

----------------------------------------------------------------------------
(* main(), lines 258-319, from the loaded document on *)

\* roots[key], for bookmark_data as the <<key, node>> pairs of "roots"
RootNode(roots, key) == roots[CHOOSE i \in 1..Len(roots) : roots[i][1] = key][2]

RootKeys(roots) == {roots[i][1] : i \in 1..Len(roots)}

\* Line 276 taking every container of roots.
IsScannedRootAny(root_name) == TRUE

\* Line 276: only the standard Chrome roots are scanned.
IsScannedRoot(root_name) == root_name \in CHROME_ROOT_NAMES

\* Lines 275-279 taking the containers from the last to the first.
RECURSIVE CollectRootsReversed(_, _, _)
CollectRootsReversed(roots, i, acc) ==
    IF i > Len(roots) \/ ~acc.ok THEN acc
    ELSE CollectRootsReversed(roots, i + 1,
            IF IsScannedRoot(roots[Len(roots) + 1 - i][1])
            THEN collect_bookmarks_recursively(roots[Len(roots) + 1 - i][2],
                                               <<roots[Len(roots) + 1 - i][1]>>, acc, 0)
            ELSE acc)

\* Lines 275-279: the loop over roots.items() from item i on.
RECURSIVE CollectRoots(_, _, _)
CollectRoots(roots, i, acc) ==
    IF i > Len(roots) \/ ~acc.ok THEN acc
    ELSE CollectRoots(roots, i + 1,
            IF IsScannedRoot(roots[i][1])
            THEN collect_bookmarks_recursively(roots[i][2], <<roots[i][1]>>, acc, 0)
            ELSE acc)

\* Lines 293-295: the children of every standard root are emptied.
ClearedRoots(roots) ==
    [i \in 1..Len(roots) |->
        IF roots[i][1] \in CHROME_ROOT_NAMES /\ "children" \in roots[i][2].keys
        THEN <<roots[i][1], [roots[i][2] EXCEPT !.children = <<>>]>>
        ELSE roots[i]]

\* Line 304: roots[DESTINATION_ROOT_NAME]["children"] = new_root_children
PlacedRoots(roots, new_root_children) ==
    [i \in 1..Len(roots) |->
        IF roots[i][1] = DESTINATION_ROOT_NAME
        THEN <<roots[i][1], [roots[i][2] EXCEPT !.children = new_root_children,
                                                !.keys = @ \cup {"children"}]>>
        ELSE roots[i]]

\* Lines 269-273: no "roots" section, or an empty one.
NoRoots ==
    /\ pc = "loaded"
    /\ bookmark_data = <<>>
    /\ pc' = "exit_no_roots"
    /\ UNCHANGED <<mainVars, canonVars, buildVars>>

\* Lines 266-283: the scan of the standard roots.  An exception raised in the
\* collector is not caught by main(): the process ends with the file as it was.
Collect ==
    /\ pc = "loaded"
    /\ bookmark_data # <<>>
    /\ LET acc == CollectRoots(bookmark_data, 1,
                     [cb |-> EmptyDict, seen |-> {}, uuid |-> 0, ok |-> TRUE])
       IN  /\ collected_bookmarks' = acc.cb
           /\ seen_urls' = acc.seen
           /\ uuid_calls' = acc.uuid
           /\ pc' = IF acc.ok THEN "collected" ELSE "crashed"
    /\ UNCHANGED <<bookmark_data, file, canonVars, buildVars>>

\* Lines 286-289: nothing was collected.
NothingCollected ==
    /\ pc = "collected"
    /\ collected_bookmarks.items = <<>>
    /\ pc' = "exit_nothing_collected"
    /\ UNCHANGED <<mainVars, canonVars, buildVars>>

\* Lines 291-295
ClearOldStructure ==
    /\ pc = "collected"
    /\ collected_bookmarks.items # <<>>
    /\ bookmark_data' = ClearedRoots(bookmark_data)
    /\ pc' = "cleared"
    /\ UNCHANGED <<file, collected_bookmarks, seen_urls, uuid_calls, canonVars, buildVars>>

\* Lines 297-312: the new tree is built, and placed when the destination root
\* is in roots.  An exception raised in the builder is not caught either.
BuildAndPlace ==
    /\ pc = "cleared"
    /\ LET built == build_chrome_json_structure(collected_bookmarks, uuid_calls)
       IN  /\ uuid_calls' = built.uuid
           /\ IF ~built.ok
              THEN /\ pc' = "crashed"
                   /\ UNCHANGED bookmark_data
              ELSE IF DESTINATION_ROOT_NAME \in RootKeys(bookmark_data)
              THEN /\ bookmark_data' = PlacedRoots(bookmark_data, built.children)
                   /\ pc' = "placed"
              ELSE /\ pc' = "exit_no_destination"
                   /\ UNCHANGED bookmark_data
    /\ UNCHANGED <<file, collected_bookmarks, seen_urls, canonVars, buildVars>>

\* Lines 314-319 and save_bookmarks, lines 64-72: the document is written, or
\* opening the file fails, which save_bookmarks reports and main() ignores.
Save ==
    /\ pc = "placed"
    /\ \/ /\ file' = bookmark_data
          /\ pc' = "done"
       \/ /\ file' = file
          /\ pc' = "done_save_failed"
    /\ UNCHANGED <<bookmark_data, collected_bookmarks, seen_urls, uuid_calls, canonVars, buildVars>>

Next == NoRoots \/ Collect \/ NothingCollected \/ ClearOldStructure \/ BuildAndPlace \/ Save

----------------------------------------------------------------------------
(* The documents a run starts from *)

\* At most this many url nodes are filed under the standard roots of a document.
MaxPlacements == 2

\* The deepest chain of folders is MAX_RECURSION_DEPTH - 1 + DeepOver long.
DeepOver == 1

\* A chain of n folder names.
Chain(n) == [i \in 1..n |-> "Work"]

\* The folder paths (below the root container) a url node is filed at; "" is a
\* folder without a name.  With the container at depth 0, a url node below n
\* folders is at depth n + 1.
FolderPaths ==
    { <<>>, <<"Work">>, <<"apps">>, <<"Work", "apps">>, <<"Work", "apps", "Work">>, <<"">>,
      <<"Work", "Bookmarks Bar">>, <<"_bookmarks">>, <<"Work", "_bookmarks">> }
    \cup {Chain(n) : n \in (MAX_RECURSION_DEPTH - 1)..(MAX_RECURSION_DEPTH - 1 + DeepOver)}

UrlNodes ==
    { UrlNode({"name", "url", "date_added"}, "a", "http://x", "1"),
      UrlNode({"url"}, "", "http://x", ""),
      UrlNode({"name", "url", "date_added"}, "B", "http://y", "3"),
      UrlNode({"name", "url"}, "a", "javascript:alert(1)", ""),
      UrlNode({"name"}, "A", "", "") }

ScannedKeys == {"Bookmarks Bar", "Other Bookmarks"}

Placements == [root : ScannedKeys, path : FolderPaths, node : UrlNodes]

PlacementSeqs == UNION {[1..n -> Placements] : n \in 0..MaxPlacements}

\* The containers of "roots", in the order the loader gives them.
Layouts ==
    { << [key |-> "Bookmarks Bar", named |-> TRUE, has_children |-> TRUE],
         [key |-> "Other Bookmarks", named |-> TRUE, has_children |-> TRUE],
         [key |-> "bookmark_bar", named |-> TRUE, has_children |-> TRUE] >>,
      << [key |-> "bookmark_bar", named |-> TRUE, has_children |-> FALSE],
         [key |-> "Other Bookmarks", named |-> FALSE, has_children |-> TRUE],
         [key |-> "synced", named |-> TRUE, has_children |-> TRUE],
         [key |-> "Bookmarks Bar", named |-> FALSE, has_children |-> TRUE] >>,
      << [key |-> "Bookmarks Bar", named |-> FALSE, has_children |-> TRUE],
         [key |-> "Mobile Bookmarks", named |-> TRUE, has_children |-> FALSE],
         [key |-> "Other Bookmarks", named |-> TRUE, has_children |-> TRUE],
         [key |-> "synced", named |-> FALSE, has_children |-> TRUE] >> }

\* What a container outside the standard roots holds when the document is loaded.
OtherChildren(key) ==
    IF key = "synced"
    THEN <<UrlNode({"name", "url", "date_added"}, "A", "http://z", "1")>>
    ELSE <<FolderNode({"name", "children"}, "Work",
                      <<UrlNode({"name", "url"}, "a", "http://old", "")>>)>>

\* children with node filed below the folders of path (from segment i on): the
\* last child is entered when it is the folder path[i], else a folder is added.
RECURSIVE AddBranch(_, _, _, _)
AddBranch(children, path, i, node) ==
    IF i > Len(path) THEN Append(children, node)
    ELSE LET n == Len(children)
             keys == IF path[i] = "" THEN {"type", "children"} ELSE {"type", "name", "children"}
             enter == /\ n > 0
                      /\ children[n].type = "folder"
                      /\ children[n].keys = keys
                      /\ children[n].name = path[i]
         IN  IF enter
             THEN [children EXCEPT ![n].children = AddBranch(@, path, i + 1, node)]
             ELSE Append(children,
                         FolderNode(keys \ {"type"}, path[i], AddBranch(<<>>, path, i + 1, node)))

RECURSIVE ChildrenOfRoot(_, _, _, _)
ChildrenOfRoot(placements, i, key, children) ==
    IF i > Len(placements) THEN children
    ELSE ChildrenOfRoot(placements, i + 1, key,
            IF placements[i].root = key
            THEN AddBranch(children, placements[i].path, 1, placements[i].node)
            ELSE children)

Document(layout, placements) ==
    [i \in 1..Len(layout) |->
        LET c == layout[i]
            children == IF ~c.has_children THEN <<>>
                        ELSE IF c.key \in ScannedKeys
                        THEN ChildrenOfRoot(placements, 1, c.key, <<>>)
                        ELSE OtherChildren(c.key)
        IN  <<c.key, FolderNode((IF c.named THEN {"name"} ELSE {})
                                \cup (IF c.has_children THEN {"children"} ELSE {}),
                                IF c.named THEN c.key ELSE "", children)>>]

Documents == {<<>>} \cup {Document(layout, ps) : layout \in Layouts, ps \in PlacementSeqs}

IdleMain ==
    /\ bookmark_data = <<>>
    /\ file = <<>>
    /\ collected_bookmarks = EmptyDict
    /\ seen_urls = {}
    /\ uuid_calls = 0

IdleCanon ==
    /\ original_full_path_parts = <<>>
    /\ canonical_path = <<>>
    /\ recanonical_path = <<>>

IdleBuild ==
    /\ collected_node_dict = EmptyDict
    /\ reinserted_node_dict = EmptyDict
    /\ children_list = <<>>
    /\ rebuilt_children_list = <<>>

\* After load_bookmarks (line 258): the document is in memory as it is on disk.
Init ==
    /\ pc = "loaded"
    /\ bookmark_data \in Documents
    /\ file = bookmark_data
    /\ collected_bookmarks = EmptyDict
    /\ seen_urls = {}
    /\ uuid_calls = 0
    /\ IdleCanon
    /\ IdleBuild

Spec == Init /\ [][Next]_vars

----------------------------------------------------------------------------
(* Runs of the canonicalizer alone *)

\* The longest path given to the canonicalizer.
MaxPathLen == 4

PathNames == {"A", "B", "C", "Bookmarks Bar", "Other Bookmarks"}

InitCanon ==
    /\ pc = "path_given"
    /\ original_full_path_parts \in UNION {[1..n -> PathNames] : n \in 1..MaxPathLen}
    /\ canonical_path = <<>>
    /\ recanonical_path = <<>>
    /\ IdleMain
    /\ IdleBuild

Canonicalize ==
    /\ pc = "path_given"
    /\ canonical_path' = get_canonical_path_segments(original_full_path_parts)
    /\ pc' = "canonical"
    /\ UNCHANGED <<original_full_path_parts, recanonical_path, mainVars, buildVars>>

Recanonicalize ==
    /\ pc = "canonical"
    /\ recanonical_path' = get_canonical_path_segments(canonical_path)
    /\ pc' = "recanonical"
    /\ UNCHANGED <<original_full_path_parts, canonical_path, mainVars, buildVars>>

NextCanon == Canonicalize \/ Recanonicalize

SpecCanon == InitCanon /\ [][NextCanon]_vars

----------------------------------------------------------------------------
(* Runs of the tree builder alone, on merge-structure nodes the collector's *)
(* insertion (lines 155-165) makes                                         *)

\* At most this many bookmarks are inserted into a node.
MaxInserts == 3

InsertPaths == { <<>>, <<"Work">>, <<"apps">>, <<"work">>, <<"Work", "apps">>, <<"_bookmarks">> }

InsertItems ==
    { BookmarkItem(UrlNode({"name", "url", "date_added"}, "a", "http://x", "1"), 1),
      BookmarkItem(UrlNode({"name", "url", "date_added"}, "A", "http://y", "1"), 2),
      BookmarkItem(UrlNode({"name", "url", "date_added"}, "B", "http://z", "3"), 3),
      BookmarkItem(UrlNode({"url"}, "", "http://old", ""), 4) }

\* The insertions of n bookmarks with different URLs, in order.
Insertions(n) ==
    {ins \in [1..n -> [path : InsertPaths, item : InsertItems]] :
        \A i, j \in 1..n : i # j => ins[i].item # ins[j].item}

\* The node after the insertions from i on, and whether none of them raised.
RECURSIVE InsertAll(_, _, _)
InsertAll(ins, i, node) ==
    IF i > Len(ins) \/ ~node.ok THEN node
    ELSE InsertAll(ins, i + 1, InsertAtPath(node.level, ins[i].path, 1, ins[i].item))

InitBuild ==
    /\ pc = "node_given"
    /\ \E n \in 0..MaxInserts :
         \E ins \in Insertions(n) :
           \E order \in Permutations(1..n) :
             LET first == InsertAll(ins, 1, [level |-> EmptyDict, ok |-> TRUE])
                 second == InsertAll([i \in 1..n |-> ins[order[i]]], 1,
                                     [level |-> EmptyDict, ok |-> TRUE])
             IN  /\ first.ok /\ second.ok
                 /\ collected_node_dict = first.level
                 /\ reinserted_node_dict = second.level
    /\ children_list = <<>>
    /\ rebuilt_children_list = <<>>
    /\ IdleMain
    /\ IdleCanon

\* A call that raises returns no list.
Build ==
    /\ pc = "node_given"
    /\ LET built == build_chrome_json_structure(collected_node_dict, 0)
       IN  /\ children_list' = IF built.ok THEN built.children ELSE <<>>
           /\ pc' = IF built.ok THEN "built" ELSE "build_raised"
    /\ UNCHANGED <<collected_node_dict, reinserted_node_dict, rebuilt_children_list,
                   mainVars, canonVars>>

Rebuild ==
    /\ pc = "built"
    /\ LET built == build_chrome_json_structure(reinserted_node_dict, 0)
       IN  /\ rebuilt_children_list' = IF built.ok THEN built.children ELSE <<>>
           /\ pc' = IF built.ok THEN "rebuilt" ELSE "build_raised"
    /\ UNCHANGED <<collected_node_dict, reinserted_node_dict, children_list,
                   mainVars, canonVars>>

NextBuild == Build \/ Rebuild

SpecBuild == InitBuild /\ [][NextBuild]_vars

----------------------------------------------------------------------------
(* What the properties speak of: the url nodes of the source document in    *)
(* traversal order, and the url records of a tree or of the merge structure *)

\* The url nodes below node in depth-first order, children in list order,
\* each with the folder names above it (path), its depth and its container.
RECURSIVE UrlNodesBelow(_, _, _, _)
RECURSIVE UrlNodesOfChildren(_, _, _, _, _)
UrlNodesBelow(node, path, depth, root) ==
    IF node.type = "url"
    THEN <<[node |-> node, path |-> path, depth |-> depth, root |-> root]>>
    ELSE UrlNodesOfChildren(node.children, 1,
                            IF "name" \in node.keys /\ node.name # ""
                            THEN path \o <<node.name>> ELSE path,
                            depth + 1, root)

UrlNodesOfChildren(children, i, path, depth, root) ==
    IF i > Len(children) THEN <<>>
    ELSE UrlNodesBelow(children[i], path, depth, root)
         \o UrlNodesOfChildren(children, i + 1, path, depth, root)

\* The url nodes under the root-marker containers of roots, containers in the
\* order of roots.
RECURSIVE Traversal(_, _)
Traversal(roots, i) ==
    IF i > Len(roots) THEN <<>>
    ELSE (IF roots[i][1] \in CHROME_ROOT_NAMES
          THEN UrlNodesBelow(roots[i][2], <<roots[i][1]>>, 0, roots[i][1])
          ELSE <<>>) \o Traversal(roots, i + 1)

\* The document as it was loaded: main() writes the file in its last step only.
Source == Traversal(file, 1)

HasValidUrl(occ) ==
    /\ "url" \in occ.node.keys
    /\ occ.node.url # ""
    /\ ~(Len(Chars(occ.node.url)) >= 11 /\ SubSeq(Chars(occ.node.url), 1, 11) = Chars("javascript:"))

\* Not skipped: a valid URL, within the depth limit.
Eligible(occ) == HasValidUrl(occ) /\ occ.depth <= MAX_RECURSION_DEPTH

\* Occurrence i of the traversal is the first eligible one of its URL.
FirstSeen(occs, i) ==
    /\ Eligible(occs[i])
    /\ \A j \in 1..(i - 1) : ~(Eligible(occs[j]) /\ occs[j].node.url = occs[i].node.url)

\* The url records of a children list, each with the names of the folder
\* records above it.
RECURSIVE UrlRecords(_, _, _)
UrlRecords(children, i, path) ==
    IF i > Len(children) THEN <<>>
    ELSE (IF children[i].type = "url"
          THEN <<[rec |-> children[i], path |-> path]>>
          ELSE UrlRecords(children[i].children, 1, path \o <<children[i].name>>))
         \o UrlRecords(children, i + 1, path)

\* The bookmark items of a merge-structure node, each with the keys above the
\* '_bookmarks' list that holds it.
RECURSIVE MergeEntries(_, _, _)
MergeEntries(d, i, path) ==
    IF i > Len(d.items) THEN <<>>
    ELSE (IF d.items[i][2].kind = "list"
          THEN [k \in 1..Len(d.items[i][2].items) |->
                   [rec |-> d.items[i][2].items[k], path |-> path]]
          ELSE MergeEntries(d.items[i][2], 1, path \o <<d.items[i][1]>>))
         \o MergeEntries(d, i + 1, path)

\* The tree placed under the destination root.
DestinationTree ==
    UrlRecords(RootNode(bookmark_data, DESTINATION_ROOT_NAME).children, 1, <<>>)

Indexes(seq) == 1..Len(seq)

\* The record is the one the collector makes of this occurrence, filed at the
\* canonical path of its ancestor path.
IsRecordOf(r, occ) ==
    /\ r.rec.url = occ.node.url
    /\ r.rec.name = (IF "name" \in occ.node.keys THEN occ.node.name ELSE "No Name")
    /\ r.rec.date_added = (IF "date_added" \in occ.node.keys THEN occ.node.date_added ELSE "0")
    /\ r.path = get_canonical_path_segments(occ.path)

----------------------------------------------------------------------------
(* C1 *)

\* C1: global URL uniqueness.  Once the collector has run over all root-marker
\* containers and the builder over the merge structure, no two url records of
\* the destination tree carry the same URL.
GlobalUrlUniqueness ==
    pc \in {"placed", "done", "done_save_failed"} =>
        \A i, j \in Indexes(DestinationTree) :
            DestinationTree[i].rec.url = DestinationTree[j].rec.url => i = j

\* A URL that two eligible url nodes of the source carry is in the destination tree.
DuplicateUrlPlaced ==
    /\ pc = "placed"
    /\ \E i, j \in Indexes(Source) :
         /\ i < j
         /\ Eligible(Source[i]) /\ Eligible(Source[j])
         /\ Source[i].node.url = Source[j].node.url
         /\ \E k \in Indexes(DestinationTree) : DestinationTree[k].rec.url = Source[i].node.url

----------------------------------------------------------------------------
(* C2 *)

\* C2: first-seen-wins.  For every url node X that is not skipped and is the
\* first of the traversal with its URL, the destination tree holds exactly one
\* record with that URL, and it has X's name and date_added and is filed under
\* the canonical path of X's ancestor path; every record of the tree is such a
\* record, so none is made of a later node Y.
FirstSeenWins ==
    pc = "placed" =>
        /\ \A i \in Indexes(Source) :
             FirstSeen(Source, i) =>
                /\ \E k \in Indexes(DestinationTree) : IsRecordOf(DestinationTree[k], Source[i])
                /\ \A k, l \in Indexes(DestinationTree) :
                     (/\ DestinationTree[k].rec.url = Source[i].node.url
                      /\ DestinationTree[l].rec.url = Source[i].node.url) => k = l
        /\ \A k \in Indexes(DestinationTree) :
             \E i \in Indexes(Source) :
                FirstSeen(Source, i) /\ IsRecordOf(DestinationTree[k], Source[i])

\* X before Y with the same URL, another name, another date and another
\* canonical path, both eligible, and the tree holds X's record.
LaterCopyDropped ==
    /\ pc = "placed"
    /\ \E i, j \in Indexes(Source) :
         /\ i < j
         /\ FirstSeen(Source, i) /\ Eligible(Source[j])
         /\ Source[i].node.url = Source[j].node.url
         /\ Get(Source[i].node, "name", "No Name") # Get(Source[j].node, "name", "No Name")
         /\ Get(Source[i].node, "date_added", "0") # Get(Source[j].node, "date_added", "0")
         /\ get_canonical_path_segments(Source[i].path) # get_canonical_path_segments(Source[j].path)
         /\ Source[i].root # Source[j].root
         /\ \E k \in Indexes(DestinationTree) : IsRecordOf(DestinationTree[k], Source[i])

----------------------------------------------------------------------------
(* C3 *)

----------------------------------------------------------------------------
(* C5 *)

NoRepeatedName(path) == \A i, j \in Indexes(path) : path[i] = path[j] => i = j

\* The path without its leading run of root-marker names.
UserDefinedSegments(path) ==
    LET user == {i \in Indexes(path) : path[i] \notin CHROME_ROOT_NAMES}
    IN  IF user = {} THEN <<>>
        ELSE SubSeq(path, CHOOSE i \in user : \A j \in user : i <= j, Len(path))

\* The longest suffix of the path in which no name occurs twice.
LongestRepeatFreeSuffix(path) ==
    LET free == {k \in 0..Len(path) : NoRepeatedName(SubSeq(path, Len(path) - k + 1, Len(path)))}
        k == CHOOSE m \in free : \A n \in free : n <= m
    IN  SubSeq(path, Len(path) - k + 1, Len(path))

\* C5: repeat-collapse correctness.  For a path that keeps a user-defined
\* segment after its leading root-marker names are dropped, the canonicalizer
\* returns the longest suffix of those segments without a repeated name; the
\* result is non-empty and has no repeated name.
RepeatCollapseCorrect ==
    (pc \in {"canonical", "recanonical"} /\ UserDefinedSegments(original_full_path_parts) # <<>>) =>
        /\ canonical_path = LongestRepeatFreeSuffix(UserDefinedSegments(original_full_path_parts))
        /\ canonical_path # <<>>
        /\ NoRepeatedName(canonical_path)

\* [A, B, A, B] gives [A, B], and a path whose nearest repeat cuts off a name
\* that occurs nowhere else ([C, A, A] gives [A]).
RepeatCollapsed ==
    /\ pc = "canonical"
    /\ \/ /\ original_full_path_parts = <<"A", "B", "A", "B">>
          /\ canonical_path = <<"A", "B">>
       \/ /\ original_full_path_parts = <<"Bookmarks Bar", "C", "A", "A">>
          /\ canonical_path = <<"A">>

----------------------------------------------------------------------------
(* C4 *)

\* Occurrences i before j: the same URL filed at the same user folder path
\* under two different root-marker containers, neither skipped.
SamePathTwoRoots(occs, i, j) ==
    /\ i < j
    /\ FirstSeen(occs, i) /\ Eligible(occs[j])
    /\ occs[i].node.url = occs[j].node.url
    /\ occs[i].root # occs[j].root
    /\ UserDefinedSegments(occs[i].path) # <<>>
    /\ UserDefinedSegments(occs[i].path) = UserDefinedSegments(occs[j].path)

\* The container the record's url node was collected from.
CollectedFrom(occs, r) ==
    occs[CHOOSE i \in Indexes(occs) : FirstSeen(occs, i) /\ occs[i].node.url = r.rec.url].root

MergeStructure == MergeEntries(collected_bookmarks, 1, <<>>)

\* C4 as claimed: different root markers never merge.  A URL filed at the same
\* user folder path under two root-marker containers survives as two separate
\* entries, and no merge-structure node holds entries collected from two
\* different root-marker containers.
DifferentRootsNeverMerge ==
    pc = "placed" =>
        /\ \A i, j \in Indexes(Source) :
             SamePathTwoRoots(Source, i, j) =>
                \E k, l \in Indexes(DestinationTree) :
                    /\ k # l
                    /\ DestinationTree[k].rec.url = Source[i].node.url
                    /\ DestinationTree[l].rec.url = Source[i].node.url
        /\ \A k, l \in Indexes(MergeStructure) :
             CollectedFrom(Source, MergeStructure[k]) # CollectedFrom(Source, MergeStructure[l])
                => MergeStructure[k].path # MergeStructure[l].path

\* C4 as amended: of a URL filed at the same user folder path under two
\* root-marker containers, the destination tree holds one entry only, the
\* first visited, filed under the canonical path of that path (there is no
\* bucket per root marker); entries with no user-defined folder above them
\* that were collected from different root-marker containers are never in the
\* same merge-structure node: each is in the node named by its own container's
\* key.
RootOnlyEntriesNeverMerge ==
    pc = "placed" =>
        /\ \A i, j \in Indexes(Source) :
             SamePathTwoRoots(Source, i, j) =>
                /\ \E k \in Indexes(DestinationTree) :
                     /\ IsRecordOf(DestinationTree[k], Source[i])
                     /\ DestinationTree[k].path =
                            LongestRepeatFreeSuffix(UserDefinedSegments(Source[i].path))
                /\ \A k, l \in Indexes(DestinationTree) :
                     (/\ DestinationTree[k].rec.url = Source[i].node.url
                      /\ DestinationTree[l].rec.url = Source[i].node.url) => k = l
        /\ \A i, j \in Indexes(Source) :
             (/\ FirstSeen(Source, i) /\ FirstSeen(Source, j)
              /\ Source[i].root # Source[j].root
              /\ UserDefinedSegments(Source[i].path) = <<>>
              /\ UserDefinedSegments(Source[j].path) = <<>>) =>
                \A k, l \in Indexes(MergeStructure) :
                    (/\ MergeStructure[k].rec.url = Source[i].node.url
                     /\ MergeStructure[l].rec.url = Source[j].node.url) =>
                        /\ MergeStructure[k].path = <<Source[i].root>>
                        /\ MergeStructure[l].path = <<Source[j].root>>
                        /\ MergeStructure[k].path # MergeStructure[l].path

\* http://x filed at Work > apps under two root-marker containers, and one
\* record of it in the destination tree, at Work > apps.
SameUrlSamePathPlacedOnce ==
    /\ pc = "placed"
    /\ \E i, j \in Indexes(Source) :
         /\ SamePathTwoRoots(Source, i, j)
         /\ UserDefinedSegments(Source[i].path) = <<"Work", "apps">>
         /\ \E k \in Indexes(DestinationTree) :
              /\ DestinationTree[k].rec.url = Source[i].node.url
              /\ DestinationTree[k].path = <<"Work", "apps">>

----------------------------------------------------------------------------
(* C6 *)

\* One level: no entry before a folder, the folders in non-decreasing order of
\* lower-cased name, the entries too.
OrderedLevel(children) ==
    \A i, j \in Indexes(children) :
        i < j =>
            /\ ~(children[i].type = "url" /\ children[j].type = "folder")
            /\ children[i].type = children[j].type =>
                  CharsLeq(LowerChars(Chars(children[i].name)), LowerChars(Chars(children[j].name)))

RECURSIVE OrderedAtEveryLevel(_)
OrderedAtEveryLevel(children) ==
    /\ OrderedLevel(children)
    /\ \A i \in Indexes(children) : OrderedAtEveryLevel(children[i].children)

\* The names and types of a built list, level by level, ids aside.
RECURSIVE NamesAndTypes(_)
NamesAndTypes(children) ==
    [i \in Indexes(children) |->
        <<children[i].type, children[i].name, NamesAndTypes(children[i].children)>>]

LowerNamesAndTypes(children) ==
    [i \in Indexes(children) |-> <<children[i].type, LowerChars(Chars(children[i].name))>>]

\* No two records of one kind at one level have names equal up to case.
RECURSIVE NoCaseTie(_)
NoCaseTie(children) ==
    /\ \A i, j \in Indexes(children) :
         (/\ i # j
          /\ children[i].type = children[j].type)
            => LowerChars(Chars(children[i].name)) # LowerChars(Chars(children[j].name))
    /\ \A i \in Indexes(children) : NoCaseTie(children[i].children)

----------------------------------------------------------------------------
(* C7 *)

\* C7: destination absent is a fatal error with no mutation.  When the run
\* stops because the destination root is not in roots, no container of the
\* document has been changed (no children list cleared), and the file is as
\* it was loaded.
DestinationAbsentNoMutation ==
    pc = "exit_no_destination" =>
        \A i \in Indexes(bookmark_data) : bookmark_data[i] = file[i]

----------------------------------------------------------------------------
(* C8 *)

\* The positions at which the file is still the document that was loaded.
FileAsLoaded == pc \notin {"done"}

\* C8: unrecognized containers are untouched.  No URL held by a container
\* whose key is not a root-marker name is ever collected, and every such
\* container of the document is the one that was loaded.
UnrecognizedContainersUntouched ==
    FileAsLoaded =>
        /\ seen_urls \cap {"http://z", "http://old"} = {}
        /\ \A i \in Indexes(bookmark_data) :
             bookmark_data[i][1] \notin CHROME_ROOT_NAMES => bookmark_data[i] = file[i]

----------------------------------------------------------------------------
(* C9 *)

\* The positions after the scan of the root containers.
Scanned ==
    pc \in {"collected", "crashed", "exit_nothing_collected", "cleared", "placed",
            "exit_no_destination", "done_save_failed"}

\* C9: the depth guard drops only what is too deep.  After the scan, every url
\* node at a depth of at most MAX_RECURSION_DEPTH with a valid URL not seen
\* earlier is in the merge structure, with its name and date, at the
\* canonical path of its ancestor path; the URLs marked as seen are those of
\* such nodes only, so a URL the guard skipped is not marked.
DepthGuardKeepsShallowNodes ==
    Scanned =>
        /\ \A i \in Indexes(Source) :
             FirstSeen(Source, i) =>
                \E k \in Indexes(MergeStructure) : IsRecordOf(MergeStructure[k], Source[i])
        /\ seen_urls = {Source[i].node.url : i \in {j \in Indexes(Source) : Eligible(Source[j])}}

----------------------------------------------------------------------------
(* C10 *)

\* Every '_bookmarks' key of the node holds a list of entries and every other
\* key a sub-mapping of the same kind.
RECURSIVE WellFormed(_)
WellFormed(d) ==
    \A i \in Indexes(d.items) :
        IF d.items[i][1] = "_bookmarks"
        THEN d.items[i][2].kind = "list"
        ELSE d.items[i][2].kind = "dict" /\ WellFormed(d.items[i][2])

\* C10: entries and subfolders coexist at every merge-structure node for every
\* folder name, '_bookmarks' too.  The collector and the builder never fail,
\* the entry list of a node is under the sentinel and each subfolder under its
\* own name, and every collected entry is an entry record of the tree built.
EntriesAndSubfoldersCoexist ==
    /\ pc # "crashed"
    /\ WellFormed(collected_bookmarks)
    /\ pc = "placed" =>
         \A k \in Indexes(MergeStructure) :
            \E l \in Indexes(DestinationTree) : DestinationTree[l] = MergeStructure[k]

====
